---- MODULE Spec2Model ----
(***************************************************************************)
(* A model of the HTTP API of src/main.py: the declared schemas            *)
(* (HairColor, Location, PersonBase, Person, PersonOut, LoginOut), the     *)
(* eight path operations, the request validation the declarations ask the  *)
(* framework to do, the handler bodies and the serialisation of what they  *)
(* return.  One request is handled at a time: an endpoint action takes the *)
(* server from idle to a state holding the request and its response, and   *)
(* Respond sends the response and discards the request-scoped objects.     *)
(*                                                                         *)
(* Values (raw JSON values, Python values, encoded JSON values) are        *)
(* records of a type and a content field named after the type; a key that  *)
(* the client did not send is a key that is not in the DOMAIN of the       *)
(* object.                                                                 *)
(***************************************************************************)
EXTENDS Integers, Sequences, FiniteSets, TLC

VARIABLES
    persons,      \* the module-level list `persons`
    request,      \* the request being handled, or NoRequest when idle
    response,     \* the response to `request`, or NoResponse when idle
    handler_ran,  \* TRUE when the path operation function's body was entered
    image_file,   \* the spooled file behind UploadFile: [size, pos, reads, open]
    created       \* history: TRUE once POST /person/new has answered 201

vars == <<persons, request, response, handler_ran, image_file, created>>

----------------------------------------------------------------------------
(* Bounds of the model.                                                    *)

\* path ids range over -MaxId..MaxId
MaxId == 7
\* ages range over -1..MaxAge
MaxAge == 117
\* uploaded files have 0..MaxFileSize bytes
MaxFileSize == 2050
\* the integers a decimal numeral can be parsed to lie in -MaxInt..MaxInt
MaxInt == 200

----------------------------------------------------------------------------
(* Values.                                                                 *)

Str(s) == [type |-> "str", str |-> s]
Int_(i) == [type |-> "int", int |-> i]
Bool(b) == [type |-> "bool", bool |-> b]
None == [type |-> "none"]
Dict(f) == [type |-> "dict", items |-> f]
Float100(h) == [type |-> "float", hundredths |-> h]   \* a float given in hundredths
\* an instance of a BaseModel subclass
Model(cls, f) == [type |-> cls, fields |-> f]
\* a member of the HairColor enumeration
EnumMember(s) == [type |-> "HairColor", member |-> s]

\* marks, while a payload is built, a key that the client does not send
Missing == [type |-> "missing"]
\* the object with the keys of f that are sent
Sent(f) == [k \in {j \in DOMAIN f : f[j].type # "missing"} |-> f[k]]
\* dict.get(key): the value, or None when the key is absent
Get(f, k) == IF k \in DOMAIN f THEN f[k] ELSE None

RECURSIVE Rep(_, _)
\* the string of n copies of c
Rep(c, n) == IF n = 0 THEN "" ELSE c \o Rep(c, n - 1)

----------------------------------------------------------------------------
(* Schemas.                                                                *)

HairColor_any_case ==
    {"white", "brown", "black", "blonde", "red", "Brown", "BROWN"}
HairColor == {"white", "brown", "black", "blonde", "red"}

Location_fields ==
    << [name |-> "city", type |-> "str", required |-> TRUE,
        min_length |-> 1, max_length |-> 50],
       [name |-> "state", type |-> "str", required |-> TRUE,
        min_length |-> 1, max_length |-> 50],
       [name |-> "country", type |-> "str", required |-> TRUE,
        min_length |-> 1, max_length |-> 50] >>

PersonBase_age_ge_0 ==
    [name |-> "age", type |-> "int", required |-> TRUE, ge |-> 0, le |-> 115]
PersonBase_age == [name |-> "age", type |-> "int", required |-> TRUE, gt |-> 0, le |-> 115]

PersonBase_fields ==
    << [name |-> "first_name", type |-> "str", required |-> TRUE,
        min_length |-> 1, max_length |-> 50],
       [name |-> "last_name", type |-> "str", required |-> TRUE,
        min_length |-> 1, max_length |-> 50],
       PersonBase_age,
       [name |-> "hair_color", type |-> "HairColor", required |-> FALSE,
        optional |-> TRUE, default |-> None],
       [name |-> "is_married", type |-> "bool", required |-> FALSE,
        optional |-> TRUE, default |-> None] >>

Person_fields ==
    PersonBase_fields \o
    << [name |-> "password", type |-> "str", required |-> TRUE, min_length |-> 8] >>

PersonOut_fields == PersonBase_fields

LoginOut_fields ==
    << [name |-> "username", type |-> "str", required |-> TRUE, max_length |-> 20],
       [name |-> "message", type |-> "str", required |-> FALSE,
        default |-> Str("Login Succesfully!")] >>

----------------------------------------------------------------------------
(* Field validation, as the declarations ask of pydantic.                  *)

Ok(v) == [kind |-> "ok", value |-> v]
Fail(k) == [kind |-> k, value |-> None]
Has(field, key) == key \in DOMAIN field

\* int(s) of a decimal numeral s, the inverse of formatting an integer
parse_int(s) ==
    IF \E i \in -MaxInt..MaxInt : ToString(i) = s
    THEN Ok(Int_(CHOOSE i \in -MaxInt..MaxInt : ToString(i) = s))
    ELSE Fail("type_error.integer")

EmailLocals == {"ana", "a.lopez"}
EmailDomains == {"example.com", "mail.example.org"}
\* EmailStr: local-part "@" domain, both non-empty, the domain dotted
is_email(s) == \E l \in EmailLocals, d \in EmailDomains : s = l \o "@" \o d

\* the declared type: the value converted to it, or a type error
coerce(field, raw) ==
    CASE field.type = "str" /\ raw.type = "str" -> Ok(raw)
      [] field.type = "int" /\ raw.type = "int" -> Ok(raw)
      [] field.type = "int" /\ raw.type = "str" -> parse_int(raw.str)
      [] field.type = "bool" /\ raw.type = "bool" -> Ok(raw)
      [] field.type = "HairColor" /\ raw.type = "HairColor" -> Ok(raw)
      [] field.type = "HairColor" /\ raw.type = "str" ->
            IF raw.str \in HairColor THEN Ok(EnumMember(raw.str))
            ELSE Fail("type_error.enum")
      [] field.type = "EmailStr" /\ raw.type = "str" ->
            IF is_email(raw.str) THEN Ok(raw) ELSE Fail("value_error.email")
      [] field.type = "UploadFile" /\ raw.type = "UploadFile" -> Ok(raw)

\* min_length, max_length, gt, ge, lt, le of Field / Query / Path / Form
constrain(field, v) ==
    CASE Has(field, "min_length") /\ Len(v.str) < field.min_length ->
            Fail("value_error.any_str.min_length")
      [] Has(field, "max_length") /\ Len(v.str) > field.max_length ->
            Fail("value_error.any_str.max_length")
      [] Has(field, "gt") /\ ~(v.int > field.gt) ->
            Fail("value_error.number.not_gt")
      [] Has(field, "ge") /\ ~(v.int >= field.ge) ->
            Fail("value_error.number.not_ge")
      [] Has(field, "lt") /\ ~(v.int < field.lt) ->
            Fail("value_error.number.not_lt")
      [] Has(field, "le") /\ ~(v.int <= field.le) ->
            Fail("value_error.number.not_le")
      [] OTHER -> Ok(v)

\* ModelField.validate of a value that was sent
validate_value(field, raw) ==
    IF raw.type = "none"
    THEN IF Has(field, "optional") THEN Ok(None)
         ELSE Fail("type_error.none.not_allowed")
    ELSE LET c == coerce(field, raw)
         IN  IF c.kind # "ok" THEN c ELSE constrain(field, c.value)

\* one field of a model: missing, defaulted or validated
validate_field(field, obj) ==
    IF field.name \notin DOMAIN obj
    THEN IF field.required THEN Fail("value_error.missing")
         ELSE Ok(field.default)
    ELSE validate_value(field, obj[field.name])

\* the errors of r as a list of zero or one error at loc
errors_at(loc, r) ==
    IF r.kind = "ok" THEN << >> ELSE << [loc |-> loc, kind |-> r.kind] >>

RECURSIVE model_errors(_, _, _, _)
\* the errors of the fields i.. of a model, every failing field listed
model_errors(fields, obj, loc, i) ==
    IF i > Len(fields) THEN << >>
    ELSE errors_at(loc \o <<fields[i].name>>, validate_field(fields[i], obj))
         \o model_errors(fields, obj, loc, i + 1)

field_names(fields) == {fields[i].name : i \in 1..Len(fields)}
field_named(fields, n) == fields[CHOOSE i \in 1..Len(fields) : fields[i].name = n]

\* BaseModel validation of the object obj (a function from the keys sent):
\* the instance of cls, keys that are no field of the model ignored
validate_model(cls, fields, obj, loc) ==
    [errors |-> model_errors(fields, obj, loc, 1),
     value |-> Model(cls, [n \in field_names(fields) |->
                  validate_field(field_named(fields, n), obj).value])]

----------------------------------------------------------------------------
(* Request parameters, as the framework resolves them from the signatures. *)

\* the fields of the model class a body parameter is declared with
class_fields(cls) ==
    CASE cls = "Person" -> Person_fields
      [] cls = "Location" -> Location_fields
      [] cls = "PersonOut" -> PersonOut_fields
      [] cls = "LoginOut" -> LoginOut_fields

ModelClasses == {"Person", "Location", "PersonOut", "LoginOut"}

\* path, query, header and cookie parameters: each looked up by its alias,
\* a missing required one an error, every failing one listed
request_params_to_args(params, received, where) ==
    [errors |-> model_errors(params, received, <<where>>, 1),
     values |-> [n \in field_names(params) |->
                    validate_field(field_named(params, n), received).value]]

\* one body parameter with the value received for it
body_param(param, value, loc) ==
    IF \/ value.type = "none"
       \/ (param.in = "form" /\ value.type = "str" /\ value.str = "")
    THEN IF param.required
         THEN [errors |-> << [loc |-> loc, kind |-> "value_error.missing"] >>,
               value |-> None]
         ELSE [errors |-> << >>, value |-> param.default]
    ELSE IF param.type \in ModelClasses
         THEN validate_model(param.type, class_fields(param.type), value.items, loc)
         ELSE LET r == validate_value(param, value)
              IN  [errors |-> errors_at(loc, r), value |-> r.value]

\* a single Body(...) parameter without embed is the whole body
field_alias_omitted(params) ==
    Len(params) = 1 /\ params[1].in = "body"

body_value(params, body, i) ==
    IF field_alias_omitted(params) THEN body
    ELSE IF body.type = "none" THEN None ELSE Get(body.items, params[i].name)

body_loc(params, i) ==
    IF field_alias_omitted(params) THEN <<"body">>
    ELSE <<"body", params[i].name>>

RECURSIVE body_errors(_, _, _)
body_errors(params, body, i) ==
    IF i > Len(params) THEN << >>
    ELSE body_param(params[i], body_value(params, body, i), body_loc(params, i)).errors
         \o body_errors(params, body, i + 1)

\* body, form and file parameters
request_body_to_args(params, body) ==
    [errors |-> body_errors(params, body, 1),
     values |-> [n \in field_names(params) |->
        LET i == CHOOSE j \in 1..Len(params) : params[j].name = n
        IN  body_param(params[i], body_value(params, body, i),
                       body_loc(params, i)).value]]

first_error_only(path_errors, query_errors, header_errors, cookie_errors, body_errs) ==
    LET all == path_errors \o query_errors \o header_errors \o cookie_errors
               \o body_errs
    IN  IF all = << >> THEN << >> ELSE << all[1] >>

\* the errors of a request: those of every location, in this order
all_errors(path_errors, query_errors, header_errors, cookie_errors, body_errs) ==
    path_errors \o query_errors \o header_errors \o cookie_errors \o body_errs

\* the arguments of the path operation function, or the errors of the request
solve_dependencies(dependant, req) ==
    LET p == request_params_to_args(dependant.path_params, req.path, "path")
        q == request_params_to_args(dependant.query_params, req.query, "query")
        h == request_params_to_args(dependant.header_params, req.headers, "header")
        c == request_params_to_args(dependant.cookie_params, req.cookies, "cookie")
        b == request_body_to_args(dependant.body_params, req.body)
    IN  [errors |-> all_errors(p.errors, q.errors, h.errors, c.errors, b.errors),
         values |-> p.values @@ q.values @@ h.values @@ c.values @@ b.values]

NoParams == << >>

home_dependant ==
    [path_params |-> NoParams, query_params |-> NoParams,
     header_params |-> NoParams, cookie_params |-> NoParams,
     body_params |-> NoParams]

create_person_dependant ==
    [home_dependant EXCEPT !.body_params =
        << [name |-> "person", in |-> "body", type |-> "Person", required |-> TRUE] >>]

show_person_query_dependant ==
    [home_dependant EXCEPT !.query_params =
        << [name |-> "name", type |-> "str", required |-> FALSE, optional |-> TRUE,
            default |-> None, min_length |-> 1, max_length |-> 50],
           [name |-> "age", type |-> "str", required |-> TRUE] >>]

person_id_param == [name |-> "person_id", type |-> "int", required |-> TRUE, gt |-> 0]

show_person_path_dependant ==
    [home_dependant EXCEPT !.path_params = << person_id_param >>]

update_person_dependant ==
    [home_dependant EXCEPT
        !.path_params = << person_id_param >>,
        !.body_params =
        << [name |-> "person", in |-> "body", type |-> "Person", required |-> TRUE],
           [name |-> "location", in |-> "body", type |-> "Location",
            required |-> TRUE] >>]

login_dependant ==
    [home_dependant EXCEPT !.body_params =
        << [name |-> "username", in |-> "form", type |-> "str", required |-> TRUE],
           [name |-> "password", in |-> "form", type |-> "str", required |-> TRUE] >>]

contact_dependant ==
    [home_dependant EXCEPT
        !.body_params =
        << [name |-> "first_name", in |-> "form", type |-> "str", required |-> TRUE,
            max_length |-> 20, min_length |-> 1],
           [name |-> "last_name", in |-> "form", type |-> "str", required |-> TRUE,
            max_length |-> 20, min_length |-> 1],
           [name |-> "email", in |-> "form", type |-> "EmailStr", required |-> TRUE],
           [name |-> "message", in |-> "form", type |-> "str", required |-> TRUE,
            min_length |-> 20] >>,
        !.header_params =
        << [name |-> "user-agent", type |-> "str", required |-> FALSE,
            optional |-> TRUE, default |-> None] >>,
        !.cookie_params =
        << [name |-> "ads", type |-> "str", required |-> FALSE,
            optional |-> TRUE, default |-> None] >>]

post_image_dependant ==
    [home_dependant EXCEPT !.body_params =
        << [name |-> "image", in |-> "file", type |-> "UploadFile",
            required |-> TRUE] >>]

----------------------------------------------------------------------------
(* The path operation functions.                                           *)

PyDict(f) == [type |-> "pydict", entries |-> f]
Return(v) == [raised |-> "nothing", value |-> v]
HTTPException(status_code, detail) ==
    [raised |-> "HTTPException", status_code |-> status_code, detail |-> detail]
ValidationError == [raised |-> "ValidationError"]

HTTP_200_OK == 200
HTTP_201_CREATED == 201
HTTP_404_NOT_FOUND == 404

\* x in xs, for a list xs
In(x, xs) == \E i \in 1..Len(xs) : xs[i] = x

round_2_truncating(num, den) == (num * 100) \div den

\* round(num / den, ndigits=2) in hundredths: the nearest, a tie to the even
round_2(num, den) ==
    LET q == (num * 100) \div den
        r == (num * 100) % den
    IN  IF 2 * r < den THEN q
        ELSE IF 2 * r > den THEN q + 1
        ELSE IF q % 2 = 0 THEN q ELSE q + 1

\* file.read(): the bytes from the position to the end
read(file) == file.size - file.pos
\* the file after file.read()
after_read(file) == [file EXCEPT !.pos = file.size, !.reads = @ + 1]

home == Return(PyDict(Str("Hello") :> Str("World!")))

create_person(person) == Return(person)

show_person_query(name, age) == Return(PyDict(name :> age))

show_person_path_unchecked(person_id) ==
    Return(PyDict(person_id :> Str("It exists!")))

show_person_path(person_id) ==
    IF ~In(person_id.int, persons)
    THEN HTTPException(HTTP_404_NOT_FOUND, "¡This person doesn't exist!")
    ELSE Return(PyDict(person_id :> Str("It exists!")))

update_person(person_id, person, location) == Return(person)

login(username, password) ==
    LET m == validate_model("LoginOut", LoginOut_fields,
                            [username |-> username], << >>)
    IN  IF m.errors # << >> THEN ValidationError ELSE Return(m.value)

contact(first_name, last_name, email, message, user_agent, ads) ==
    Return(user_agent)

post_image(image) ==
    Return(PyDict(
        (Str("Filename") :> Str(image.upload.filename))
        @@ (Str("Format") :> Str(image.upload.content_type))
        @@ (Str("Size(kb)") :> Float100(round_2(read(image.upload.file), 1024)))))

----------------------------------------------------------------------------
(* Routes, and the handling of one request.                                *)

NoModel == "none"

home_route ==
    [call |-> "home", status_code |-> HTTP_200_OK, response_model |-> NoModel,
     dependant |-> home_dependant]
create_person_route_unfiltered ==
    [call |-> "create_person", status_code |-> HTTP_201_CREATED,
     response_model |-> NoModel, dependant |-> create_person_dependant]
create_person_route ==
    [call |-> "create_person", status_code |-> HTTP_201_CREATED,
     response_model |-> "PersonOut", dependant |-> create_person_dependant]
show_person_query_route ==
    [call |-> "show_person_query", status_code |-> HTTP_200_OK,
     response_model |-> NoModel, dependant |-> show_person_query_dependant]
show_person_path_route ==
    [call |-> "show_person_path", status_code |-> HTTP_200_OK,
     response_model |-> NoModel, dependant |-> show_person_path_dependant]
update_person_route ==
    [call |-> "update_person", status_code |-> HTTP_200_OK,
     response_model |-> NoModel, dependant |-> update_person_dependant]
login_route ==
    [call |-> "login", status_code |-> HTTP_200_OK,
     response_model |-> "LoginOut", dependant |-> login_dependant]
contact_route ==
    [call |-> "contact", status_code |-> HTTP_200_OK,
     response_model |-> NoModel, dependant |-> contact_dependant]
post_image_route ==
    [call |-> "post_image", status_code |-> HTTP_200_OK,
     response_model |-> NoModel, dependant |-> post_image_dependant]

\* the key of a JSON object for a key of a Python dict
json_key(k) ==
    CASE k.type = "str" -> k.str
      [] k.type = "int" -> ToString(k.int)
      [] k.type = "none" -> "null"

\* a value that holds no other value, JSON-compatible
encode_scalar(v) == IF v.type = "HairColor" THEN Str(v.member) ELSE v

\* jsonable_encoder: a model as the object of all its fields, a dict with
\* its keys as JSON keys, an enumeration member as its value
jsonable_encoder(v) ==
    CASE v.type \in ModelClasses ->
            Dict([k \in DOMAIN v.fields |-> encode_scalar(v.fields[k])])
      [] v.type = "pydict" ->
            Dict([j \in {json_key(k) : k \in DOMAIN v.entries} |->
                    encode_scalar(v.entries[CHOOSE k \in DOMAIN v.entries :
                                               json_key(k) = j])])
      [] OTHER -> encode_scalar(v)

\* the content as the response_model: its fields validated, the rest dropped
serialize_response(response_model, content) ==
    IF response_model = NoModel
    THEN [errors |-> << >>, body |-> jsonable_encoder(content)]
    ELSE LET m == validate_model(response_model, class_fields(response_model),
                                 content.fields, <<"response">>)
         IN  [errors |-> m.errors, body |-> jsonable_encoder(m.value)]

run_endpoint_function(call, values) ==
    CASE call = "home" -> home
      [] call = "create_person" -> create_person(values["person"])
      [] call = "show_person_query" ->
            show_person_query(values["name"], values["age"])
      [] call = "show_person_path" -> show_person_path(values["person_id"])
      [] call = "update_person" ->
            update_person(values["person_id"], values["person"], values["location"])
      [] call = "login" -> login(values["username"], values["password"])
      [] call = "contact" ->
            contact(values["first_name"], values["last_name"], values["email"],
                    values["message"], values["user-agent"], values["ads"])
      [] call = "post_image" -> post_image(values["image"])

Response(status_code, body) == [status_code |-> status_code, body |-> body]

\* the response to what the path operation function returned or raised
response_of(route, result) ==
    CASE result.raised = "HTTPException" ->
            Response(result.status_code, Dict([detail |-> Str(result.detail)]))
      [] result.raised = "ValidationError" ->
            Response(500, Str("Internal Server Error"))
      [] OTHER ->
            LET s == serialize_response(route.response_model, result.value)
            IN  IF s.errors # << >>
                THEN Response(500, Str("Internal Server Error"))
                ELSE Response(route.status_code, s.body)

\* one request: the parameters resolved, and only when no error was found
\* the path operation function called
get_request_handler(route, req) ==
    LET solved == solve_dependencies(route.dependant, req)
    IN  IF solved.errors # << >>
        THEN [response |-> Response(422,
                                    Dict([detail |-> solved.errors])),
              ran |-> FALSE]
        ELSE [response |-> response_of(route,
                              run_endpoint_function(route.call, solved.values)),
              ran |-> TRUE]

----------------------------------------------------------------------------
(* The requests the clients send.                                          *)

NoRequest == [route |-> "none"]
NoResponse == [status_code |-> 0]
NoFile == [size |-> 0, pos |-> 0, reads |-> 0, open |-> FALSE]
\* the spooled file of an upload of n bytes, rewound by the form parser
Spooled(n) == [size |-> n, pos |-> 0, reads |-> 0, open |-> TRUE]
Nothing == << >>

Request(route, path, query, headers, cookies, body) ==
    [route |-> route, path |-> path, query |-> query, headers |-> headers,
     cookies |-> cookies, body |-> body]

AllAges == {Int_(a) : a \in -1..MaxAge}
SomeAges == {Missing, Str("abc"), Str("30"), Int_(0), Int_(1), Int_(115), Int_(116)}
AllHairColors ==
    {Missing, None} \cup
    {Str(h) : h \in HairColor \cup {"Brown", "bronw", "BROWN", "", "red "}}
SomeHairColors == {Missing, Str("brown"), Str("Brown")}
FirstNames ==
    {Missing, Str(""), Str("A"), Str("Ana"), Str(Rep("x", 50)), Str(Rep("x", 51))}
LastNames == {Str(""), Str("Lopez"), Str(Rep("y", 50))}
Marrieds == {Missing, None, Bool(TRUE), Bool(FALSE)}
Passwords ==
    {Missing, Str("short"), Str("secret1"), Str("secret12"), Str("secret123")}

PersonPayload(fn, ln, a, h, m, p) ==
    Sent([first_name |-> fn, last_name |-> ln, age |-> a, hair_color |-> h,
          is_married |-> m, password |-> p])

\* every age and every hair colour with the other fields valid, and a few
\* ages and hair colours with every combination of the other fields
PersonPayloads ==
    {PersonPayload(Str("Ana"), Str("Lopez"), a, h, Missing, Str("secret123")) :
        a \in AllAges, h \in AllHairColors}
    \cup
    {PersonPayload(fn, ln, a, h, m, p) :
        fn \in FirstNames, ln \in LastNames, a \in SomeAges,
        h \in SomeHairColors, m \in Marrieds, p \in Passwords}

FewPersonPayloads ==
    {PersonPayload(Str("Ana"), Str("Lopez"), a, Missing, Missing, Str("secret123")) :
        a \in AllAges}
    \cup
    {PersonPayload(fn, Str("Lopez"), a, h, Bool(FALSE), p) :
        fn \in {Str(""), Str("Ana")}, a \in SomeAges, h \in SomeHairColors,
        p \in {Str("short"), Str("secret123")}}

LocationPayloads ==
    {Sent([city |-> c, state |-> st, country |-> Str("United States")]) :
        c \in {Missing, Str(""), Str("New York"), Str(Rep("z", 51))},
        st \in {Str(""), Str("New York")}}

\* the path segment of an id, and one that is no numeral
PathIds == {ToString(i) : i \in -MaxId..MaxId} \cup {"abc"}

UpdateBody(p, l) ==
    Sent([person |-> IF p = Missing THEN Missing ELSE Dict(p),
          location |-> IF l = Missing THEN Missing ELSE Dict(l)])

\* every id with a few bodies, and every body with the ids 0 and 1
UpdateRequests ==
    {<<id, UpdateBody(p, l)>> :
        id \in PathIds,
        p \in {PersonPayload(Str("Ana"), Str("Lopez"), a, Missing, Missing,
                             Str("secret123")) : a \in {Int_(0), Int_(30)}},
        l \in {Sent([city |-> c, state |-> Str("New York"),
                     country |-> Str("United States")]) :
                  c \in {Str(""), Str("New York")}}}
    \cup
    {<<id, UpdateBody(p, l)>> :
        id \in {"0", "1"}, p \in FewPersonPayloads \cup {Missing},
        l \in LocationPayloads \cup {Missing}}

Usernames ==
    {Missing, Str(""), Str("miguel2021"), Str(Rep("u", 20)), Str(Rep("u", 21))}
LoginPasswords == {Missing, Str(""), Str("x"), Str("secret123")}

ContactForms ==
    {Sent([first_name |-> fn, last_name |-> ln, email |-> e, message |-> msg]) :
        fn \in {Missing, Str(""), Str("Ana"), Str(Rep("x", 21))},
        ln \in {Str(""), Str("Lopez")},
        e \in {Missing, Str("ana@example.com"), Str("a.lopez@mail.example.org"),
               Str("not-an-email"), Str("ana@")},
        msg \in {Missing, Str("too short"), Str(Rep("m", 19)), Str(Rep("m", 20))}}

Uploads ==
    {[filename |-> "cat.png", content_type |-> "image/png"],
     [filename |-> "notes.txt", content_type |-> "text/plain"]}

----------------------------------------------------------------------------
(* The state machine.                                                      *)

Init ==
    /\ persons = <<1, 2, 3, 4, 5>>
    /\ request = NoRequest
    /\ response = NoResponse
    /\ handler_ran = FALSE
    /\ image_file = NoFile
    /\ created = FALSE

Idle == request.route = "none"

\* the request handled from its arrival to its response
Handle(route, req) ==
    /\ \E out \in {get_request_handler(route, req)} :
           /\ request' = req
           /\ response' = out.response
           /\ handler_ran' = out.ran

GET_root ==
    /\ Idle
    /\ Handle(home_route, Request("home", Nothing, Nothing, Nothing, Nothing, None))
    /\ UNCHANGED <<image_file, created, persons>>

POST_person_new_storing ==
    /\ Idle
    /\ \E p \in PersonPayloads \cup {Missing} :
          Handle(create_person_route,
                 Request("create_person", Nothing, Nothing, Nothing, Nothing,
                         IF p = Missing THEN None ELSE Dict(p)))
    /\ created' = (created \/ response'.status_code = HTTP_201_CREATED)
    /\ persons' = IF response'.status_code = HTTP_201_CREATED
                  THEN Append(persons, Len(persons) + 1)
                  ELSE persons
    /\ UNCHANGED image_file

POST_person_new ==
    /\ Idle
    /\ \E p \in PersonPayloads \cup {Missing} :
          Handle(create_person_route,
                 Request("create_person", Nothing, Nothing, Nothing, Nothing,
                         IF p = Missing THEN None ELSE Dict(p)))
    /\ created' = (created \/ response'.status_code = HTTP_201_CREATED)
    /\ UNCHANGED <<image_file, persons>>

GET_person_detail ==
    /\ Idle
    /\ \E n \in {Missing, Str(""), Str("Rocio"), Str(Rep("x", 50)), Str(Rep("x", 51))},
          a \in {Missing, Str(""), Str("25"), Str("abc")} :
          Handle(show_person_query_route,
                 Request("show_person_query", Nothing, Sent([name |-> n, age |-> a]),
                         Nothing, Nothing, None))
    /\ UNCHANGED <<image_file, created, persons>>

GET_person_detail_id ==
    /\ Idle
    /\ \E id \in PathIds :
          Handle(show_person_path_route,
                 Request("show_person_path", [person_id |-> Str(id)], Nothing,
                         Nothing, Nothing, None))
    /\ UNCHANGED <<image_file, created, persons>>

PUT_person_id ==
    /\ Idle
    /\ \E r \in UpdateRequests :
          Handle(update_person_route,
                 Request("update_person", [person_id |-> Str(r[1])], Nothing,
                         Nothing, Nothing, Dict(r[2])))
    /\ UNCHANGED <<image_file, created, persons>>

POST_login ==
    /\ Idle
    /\ \E u \in Usernames, p \in LoginPasswords :
          Handle(login_route,
                 Request("login", Nothing, Nothing, Nothing, Nothing,
                         Dict(Sent([username |-> u, password |-> p]))))
    /\ UNCHANGED <<image_file, created, persons>>

POST_contact ==
    /\ Idle
    /\ \E f \in ContactForms, ua \in {Missing, Str("curl/8.0")},
          ads \in {Missing, Str("1")} :
          Handle(contact_route,
                 Request("contact", Nothing, Nothing,
                         Sent([n \in {"user-agent"} |-> ua]),
                         Sent([ads |-> ads]), Dict(f)))
    /\ UNCHANGED <<image_file, created, persons>>

\* the upload is spooled to a file before the handler runs; the handler
\* reads it
POST_post_image ==
    /\ Idle
    /\ \/ \E n \in 0..MaxFileSize, u \in Uploads :
             LET image == [type |-> "UploadFile",
                           upload |-> [filename |-> u.filename,
                                    content_type |-> u.content_type,
                                    file |-> Spooled(n)]]
             IN  /\ Handle(post_image_route,
                           Request("post_image", Nothing, Nothing, Nothing,
                                   Nothing, Dict([image |-> image])))
                 /\ image_file' = IF handler_ran'
                                  THEN after_read(image.upload.file)
                                  ELSE image.upload.file
       \/ /\ Handle(post_image_route,
                    Request("post_image", Nothing, Nothing, Nothing, Nothing,
                            Dict(Nothing)))
          /\ UNCHANGED image_file
    /\ UNCHANGED <<created, persons>>

\* the response is sent; the request, its objects and its upload are dropped
Respond ==
    /\ ~Idle
    /\ request' = NoRequest
    /\ response' = NoResponse
    /\ handler_ran' = FALSE
    /\ image_file' = NoFile
    /\ UNCHANGED <<persons, created>>

Next ==
    \/ GET_root
    \/ POST_person_new
    \/ GET_person_detail
    \/ GET_person_detail_id
    \/ PUT_person_id
    \/ POST_login
    \/ POST_contact
    \/ POST_post_image
    \/ Respond

Spec == Init /\ [][Next]_vars

----------------------------------------------------------------------------
(* The vocabulary of the properties: what the interface documents, stated  *)
(* on requests and responses without the validators above.                 *)

Route(r) == request.route = r
Status == response.status_code

StrOfLen(obj, k, lo, hi) ==
    /\ k \in DOMAIN obj
    /\ obj[k].type = "str"
    /\ Len(obj[k].str) >= lo
    /\ Len(obj[k].str) <= hi

FiveLiterals == {"white", "brown", "black", "blonde", "red"}
PersonOutKeys == {"first_name", "last_name", "age", "hair_color", "is_married"}

\* an integer age with 0 < age <= 115
AgeInBounds(p) ==
    /\ "age" \in DOMAIN p
    /\ p.age.type = "int"
    /\ p.age.int > 0
    /\ p.age.int <= 115

\* an age in bounds, given as an integer or as its decimal numeral
AgeAccepted(p) ==
    \/ AgeInBounds(p)
    \/ /\ "age" \in DOMAIN p
       /\ p.age.type = "str"
       /\ \E i \in 1..115 : p.age.str = ToString(i)

HairColorAllowed(p) ==
    \/ "hair_color" \notin DOMAIN p
    \/ p.hair_color.type = "none"
    \/ (p.hair_color.type = "str" /\ p.hair_color.str \in FiveLiterals)

IsMarriedAllowed(p) ==
    \/ "is_married" \notin DOMAIN p
    \/ p.is_married.type \in {"none", "bool"}

PasswordLongEnough(p) ==
    /\ "password" \in DOMAIN p
    /\ p.password.type = "str"
    /\ Len(p.password.str) >= 8

ValidPerson(p) ==
    /\ StrOfLen(p, "first_name", 1, 50)
    /\ StrOfLen(p, "last_name", 1, 50)
    /\ AgeInBounds(p)
    /\ HairColorAllowed(p)
    /\ IsMarriedAllowed(p)
    /\ PasswordLongEnough(p)

ValidLocation(l) ==
    /\ StrOfLen(l, "city", 1, 50)
    /\ StrOfLen(l, "state", 1, 50)
    /\ StrOfLen(l, "country", 1, 50)

\* the fields of a Person payload that do not satisfy the schema
BadPersonFields(p) ==
    {k \in {"first_name", "last_name"} : ~StrOfLen(p, k, 1, 50)}
    \cup (IF AgeAccepted(p) THEN {} ELSE {"age"})
    \cup (IF HairColorAllowed(p) THEN {} ELSE {"hair_color"})
    \cup (IF IsMarriedAllowed(p) THEN {} ELSE {"is_married"})
    \cup (IF PasswordLongEnough(p) THEN {} ELSE {"password"})

BadLocationFields(l) == {k \in {"city", "state", "country"} : ~StrOfLen(l, k, 1, 50)}

\* the path id is the numeral of a positive integer
PathIdPositive ==
    \E i \in 1..MaxInt : request.path.person_id.str = ToString(i)

\* the request carries a Person payload
HasPerson ==
    \/ (Route("create_person") /\ request.body.type = "dict")
    \/ (Route("update_person") /\ "person" \in DOMAIN request.body.items)
ThePerson ==
    IF Route("create_person") THEN request.body.items
    ELSE request.body.items.person.items
PersonLoc == IF Route("create_person") THEN <<"body">> ELSE <<"body", "person">>

\* the locations the 422 response lists
ErrorLocs ==
    IF Status = 422
    THEN {response.body.items.detail[i].loc : i \in 1..Len(response.body.items.detail)}
    ELSE {}

\* the locations of the fields of the request that fail their declaration
FailingLocs ==
    CASE Route("create_person") ->
            IF request.body.type = "dict"
            THEN {<<"body", k>> : k \in BadPersonFields(request.body.items)}
            ELSE {<<"body">>}
      [] Route("update_person") ->
            (IF PathIdPositive THEN {} ELSE {<<"path", "person_id">>})
            \cup (IF "person" \in DOMAIN request.body.items
                  THEN {<<"body", "person", k>> :
                           k \in BadPersonFields(request.body.items.person.items)}
                  ELSE {<<"body", "person">>})
            \cup (IF "location" \in DOMAIN request.body.items
                  THEN {<<"body", "location", k>> :
                           k \in BadLocationFields(request.body.items.location.items)}
                  ELSE {<<"body", "location">>})
      [] Route("contact") ->
            {<<"body", k>> : k \in
                {j \in {"first_name", "last_name"} :
                    ~StrOfLen(request.body.items, j, 1, 20)}
                \cup (IF StrOfLen(request.body.items, "message", 20, 20)
                      THEN {} ELSE {"message"})
                \cup (IF /\ "email" \in DOMAIN request.body.items
                         /\ request.body.items.email.str \in
                               {"ana@example.com", "a.lopez@mail.example.org"}
                      THEN {} ELSE {"email"})}

----------------------------------------------------------------------------
(* The properties.                                                         *)

\* C1: for every valid Person payload, POST /person/new answers 201 with a
\* body of exactly the fields first_name, last_name, age, hair_color and
\* is_married, each equal to the input (null for an optional field that was
\* not sent), and no password key.
C1_CreatePersonReturnsPersonOut ==
    (Route("create_person") /\ request.body.type = "dict"
     /\ ValidPerson(request.body.items)) =>
        /\ Status = 201
        /\ response.body.type = "dict"
        /\ DOMAIN response.body.items = PersonOutKeys
        /\ "password" \notin DOMAIN response.body.items
        /\ \A k \in {"first_name", "last_name", "age"} :
              response.body.items[k] = request.body.items[k]
        /\ \A k \in {"hair_color", "is_married"} :
              response.body.items[k] = Get(request.body.items, k)

\* the scenario of Ana Lopez, 30, password "secret123", no optional field
C1_Witness ==
    /\ Route("create_person")
    /\ request.body =
          Dict([first_name |-> Str("Ana"), last_name |-> Str("Lopez"),
                age |-> Int_(30), password |-> Str("secret123")])
    /\ response =
          Response(201, Dict([first_name |-> Str("Ana"), last_name |-> Str("Lopez"),
                              age |-> Int_(30), hair_color |-> None,
                              is_married |-> None]))

\* C2: for every valid request to PUT /person/{person_id} (person_id > 0, a
\* valid Person and a valid Location), the answer is 200 with a PersonOut:
\* the body has no password key.
C2_UpdatePersonDropsPassword ==
    (/\ Route("update_person")
     /\ PathIdPositive
     /\ "person" \in DOMAIN request.body.items
     /\ "location" \in DOMAIN request.body.items
     /\ ValidPerson(request.body.items.person.items)
     /\ ValidLocation(request.body.items.location.items)) =>
        /\ Status = 200
        /\ response.body.type = "dict"
        /\ "password" \notin DOMAIN response.body.items
        /\ DOMAIN response.body.items = PersonOutKeys

SuccessStatus == IF Route("create_person") THEN 201 ELSE 200

\* C4: validation is over before the handler body runs, and apart from
\* GET /person/detail/{person_id} a request that passes validation ends with
\* the success status of its endpoint.
C4_OnlyLookupFailsInHandler ==
    /\ (Status = 422 => ~handler_ran)
    /\ (~Idle /\ ~Route("show_person_path") /\ handler_ran =>
            Status = SuccessStatus)

\* C5: an integer age outside (0, 115] makes POST /person/new and
\* PUT /person/{person_id} answer 422 with an error that names the age
\* field; an age with 0 < age <= 115 gives no error for the age field.
C5_AgeBounds ==
    (HasPerson /\ "age" \in DOMAIN ThePerson /\ ThePerson.age.type = "int") =>
        /\ (ThePerson.age.int <= 0 \/ ThePerson.age.int >= 116 =>
                Status = 422 /\ (PersonLoc \o <<"age">>) \in ErrorLocs)
        /\ (ThePerson.age.int > 0 /\ ThePerson.age.int <= 115 =>
                (PersonLoc \o <<"age">>) \notin ErrorLocs)

\* PUT /person/1 with age 116 answered 422 naming body.person.age
C5_Witness ==
    /\ Route("update_person")
    /\ HasPerson
    /\ Get(ThePerson, "age") = Int_(116)
    /\ Status = 422
    /\ <<"body", "person", "age">> \in ErrorLocs

\* C6: the hair_color of a Person is accepted exactly when it is absent,
\* null or one of the five literals white, brown, black, blonde, red; any
\* other string gives 422 and the handler is not run.
C6_HairColorMembership ==
    HasPerson =>
        /\ HairColorAllowed(ThePerson) <=>
              (PersonLoc \o <<"hair_color">>) \notin ErrorLocs
        /\ (~HairColorAllowed(ThePerson) => Status = 422 /\ ~handler_ran)

\* POST /person/new with hair_color "Brown" answered 422
C6_Witness ==
    /\ Route("create_person")
    /\ HasPerson
    /\ Get(ThePerson, "hair_color") = Str("Brown")
    /\ Status = 422
    /\ ~handler_ran
    /\ <<"body", "hair_color">> \in ErrorLocs

\* C7: validation does not stop at the first error: the 422 response to
\* POST /person/new, PUT /person/{person_id} and POST /contact lists an error,
\* with its location and field path, for every field that fails, and for no
\* other.
C7_AllErrorsCollected ==
    (Route("create_person") \/ Route("update_person") \/ Route("contact")) =>
        /\ ErrorLocs = FailingLocs
        /\ (FailingLocs # {} <=> Status = 422)
        /\ (Status = 422 =>
                Len(response.body.items.detail) = Cardinality(FailingLocs))

\* PUT /person/0 with age 0 and an empty city: three errors in one response
C7_Witness ==
    /\ Route("update_person")
    /\ request.path.person_id.str = "0"
    /\ FailingLocs = {<<"path", "person_id">>, <<"body", "person", "age">>,
                      <<"body", "location", "city">>}
    /\ ErrorLocs = FailingLocs
    /\ Len(response.body.items.detail) = 3

FormHas(k) ==
    /\ k \in DOMAIN request.body.items
    /\ request.body.items[k].str # ""

\* C9: POST /login with username and password answers 200 with the username
\* and the message "Login Succesfully!" whatever the password; it answers 422
\* exactly when username or password is missing.
C9_Login ==
    Route("login") =>
        /\ (FormHas("username") /\ FormHas("password") =>
                /\ Status = 200
                /\ response.body =
                      Dict([username |-> request.body.items.username,
                            message |-> Str("Login Succesfully!")]))
        /\ (Status = 422 <=> ~(FormHas("username") /\ FormHas("password")))

====
